---- MODULE Spec2Model ----
(***************************************************************************)
(* Model of scripts/kobo_sync.py: the export listing is paginated through  *)
(* http_get_with_retries, the configured export is located, its data.csv   *)
(* is downloaded, the rows are turned into features and totals, and the    *)
(* two output files are written.                                           *)
(*                                                                         *)
(* Conventions.  An optional Python value is a sequence of length <= 1:    *)
(* None is << >> and a present value x is << x >>.  A CSV cell is a string;*)
(* a float is an integer number of tenths; a datetime counts hours since   *)
(* 2024-05-01T00:00.  String functions (strip, split, float, fromisoformat)*)
(* are given by their value on every string the model's inputs contain.    *)
(***************************************************************************)
EXTENDS Integers, Sequences, FiniteSets, TLC

VARIABLES
    pages,          \* remote: the chain of export-settings listing pages
    csv,            \* remote: the rows of data.csv
    flaky,          \* remote: whether a GET can end in anything but 200
    run,            \* number of the current run of the script
    pc,             \* position of main()
    url,            \* http_get_with_retries: url argument
    tries,          \* http_get_with_retries: tries argument
    i,              \* http_get_with_retries: loop index
    last_err,       \* http_get_with_retries: last_err
    resp,           \* the response http_get_with_retries returned
    nreq,           \* history: GET requests issued by the current call
    nfail,          \* history: attempts of the current call that ended transiently
    last_out,       \* history: how the latest GET of the current call ended
    waits,          \* history: time.sleep arguments of the current call
    out,            \* fetch_all_export_settings: out
    fetched,        \* history: listing pages fetched in this run, in order
    export,         \* main: export
    csv_url,        \* main: csv_url
    geopoint_mode,  \* main: geopoint_mode
    date_field,     \* main: date_field
    idx,            \* main: number of rows the loop has consumed
    features,       \* main: features
    total_boletas,  \* main: total_boletas
    total_plantas,  \* main: total_plantas
    total_part,     \* main: total_part
    last_ts,        \* main: last_ts
    geojson,        \* main: geojson
    resumen,        \* main: resumen
    geojson_file,   \* content of data/puntos.geojson
    resumen_file,   \* content of data/resumen.json
    before,         \* history: both files as they were when the run started
    written,        \* history: the files this run has written
    err             \* the exception that ended the run

vars == << pages, csv, flaky, run, pc, url, tries, i, last_err, resp, nreq, nfail,
           last_out, waits, out, fetched, export, csv_url, geopoint_mode,
           date_field, idx, features, total_boletas, total_plantas, total_part,
           last_ts, geojson, resumen, geojson_file, resumen_file, before,
           written, err >>

remoteVars == << pages, csv, flaky >>
fetchVars == << url, tries, i, last_err, resp, nreq, nfail, last_out, waits >>
listVars == << out, fetched >>
locateVars == << export, csv_url >>
rowVars == << geopoint_mode, date_field, idx, features, total_boletas,
              total_plantas, total_part, last_ts >>
docVars == << geojson, resumen >>
fileVars == << geojson_file, resumen_file, written >>

None == << >>
Some(x) == << x >>
Val(o) == o[1]

Min(a, b) == IF a < b THEN a ELSE b

\* ----------------------------------------------------------------- bounds
MaxPages == 2
MaxRows == 2
Runs == {1, 2}
\* what the wall clock can read; no order between two readings is assumed
Clock == {50, 51}

\* ------------------------------------------------------- module constants
BASE == "https://kf.kobotoolbox.org"
ASSET == "a1"
EXPORT_NAME == "portal_csv"
OUT_GEOJSON == "data/puntos.geojson"
OUT_RESUMEN == "data/resumen.json"
GEOPOINT_ROOT_CANDIDATES == << "ubicacion", "_geolocation", "geopoint", "location" >>
DATE_FIELD_CANDIDATES ==
    << "fecha_actividad", "_submission_time", "endtime", "starttime", "today", "start", "end" >>

ListingTries == 5
DownloadTries == 7
BackoffBase == 3
BackoffCap == 30

utc_now_iso(c) == [text |-> c, suffix |-> "Z"]

\* ---------------------------------------------------- http_get_with_retries
\* fault: 504 left out of the transient statuses
TransientStatus_no504 == {502, 503}
TransientStatus == {502, 503, 504}
Statuses == {200, 401, 500, 502, 503, 504}
NetErr == [exc |-> "ConnectionError"]
HTTPError(status) == [exc |-> "HTTPError", status |-> status]

\* fault: the sleep is not capped
Backoff_uncapped(k) == BackoffBase * (2 ^ k)

\* the argument of time.sleep after the failed attempt of index k
Backoff(k) == Min(BackoffCap, BackoffBase * (2 ^ k))

\* fault: only server errors raise
RaisesForStatus_5xx(status) == status >= 500 /\ status < 600

\* the statuses for which Response.raise_for_status raises
RaisesForStatus(status) == status >= 400 /\ status < 600

\* ------------------------------------------------------------ str methods
\* str(v) of an optional cell
StrOf(v) == IF v = None THEN "None" ELSE Val(v)

\* s.strip()
Strip(s) ==
    CASE s = " 4 " -> "4"
      [] s = " portal_csv " -> "portal_csv"
      [] s = " " -> ""
      [] OTHER -> s

\* s.split(): the whitespace-separated tokens of s
Split(s) ==
    CASE s = "14.7 -91.2 0 0" -> << "14.7", "-91.2", "0", "0" >>
      [] s = "abc -91.2" -> << "abc", "-91.2" >>
      [] Strip(s) = "" -> << >>
      [] OTHER -> << Strip(s) >>

\* float(s) in tenths; None stands for the ValueError float raises
FloatOf(s) ==
    CASE s = "0" -> Some(0)
      [] s = "3" -> Some(30)
      [] s = "4" -> Some(40)
      [] s = "-5" -> Some(-50)
      [] s = "2.5" -> Some(25)
      [] s = "3.5" -> Some(35)
      [] s = "14.7" -> Some(147)
      [] s = "-91.2" -> Some(-912)
      [] OTHER -> None

\* round(x) of a float given in tenths: ties go to the even integer
Round(t) ==
    LET q == t \div 10
        r == t % 10
    IN  CASE r < 5 -> q
          [] r > 5 -> q + 1
          [] OTHER -> IF q % 2 = 0 THEN q ELSE q + 1

\* the falsy test of `v or default` on an optional string
Falsy(v) == IF v = None THEN TRUE ELSE Val(v) = ""

\* row.get(key)
RowGet(row, key) == IF key \in DOMAIN row THEN row[key] ELSE None

to_int(v) ==
    LET s == Strip(StrOf(v))
    IN  IF s = "" THEN 0
        ELSE IF FloatOf(s) = None THEN 0
        ELSE Round(Val(FloatOf(s)))

\* ------------------------------------------------------------- datetimes
D_NAIVE == "2024-05-01T10:00:00"
D_Z2 == "2024-05-02T10:00:00Z"
D_Z3 == "2024-05-03T08:00:00Z"

\* s.replace("Z", "+00:00")
ReplaceZ(s) ==
    CASE s = D_Z2 -> "2024-05-02T10:00:00+00:00"
      [] s = D_Z3 -> "2024-05-03T08:00:00+00:00"
      [] OTHER -> s

\* datetime.fromisoformat(s); None stands for the ValueError it raises
fromisoformat(s) ==
    CASE s = "2024-05-01T10:00:00" -> Some([local |-> 10, utcoffset |-> None])
      [] s = "2024-05-02T10:00:00+00:00" -> Some([local |-> 34, utcoffset |-> Some(0)])
      [] s = "2024-05-03T08:00:00+00:00" -> Some([local |-> 56, utcoffset |-> Some(0)])
      [] OTHER -> None

iso_parse(v) ==
    IF v = None THEN None
    ELSE IF Strip(StrOf(v)) = "" THEN None
    ELSE fromisoformat(ReplaceZ(Strip(StrOf(v))))

\* datetime ordering: a naive and an aware datetime do not compare (TypeError)
Comparable(a, b) == (a.utcoffset = None) <=> (b.utcoffset = None)
Instant(a) == IF a.utcoffset = None THEN a.local ELSE a.local - Val(a.utcoffset)
Later(a, b) == Instant(a) > Instant(b)

\* ts.replace(microsecond=0).isoformat()
isoformat(ts) ==
    [text |-> ts.local, suffix |-> IF ts.utcoffset = None THEN "" ELSE "+00:00"]

\* -------------------------------------------------------- schema sniffing
cand_pairs(root) ==
    << << root \o "_latitude", root \o "_longitude" >>,
       << root \o "/latitude", root \o "/longitude" >>,
       << "_" \o root \o "_latitude", "_" \o root \o "_longitude" >> >>

RECURSIVE first_pair(_, _, _)
first_pair(hset, root, k) ==
    IF k > Len(cand_pairs(root)) THEN None
    ELSE IF cand_pairs(root)[k][1] \in hset /\ cand_pairs(root)[k][2] \in hset
         THEN Some([kind |-> "split", a |-> cand_pairs(root)[k][1],
                    b |-> Some(cand_pairs(root)[k][2])])
         ELSE first_pair(hset, root, k + 1)

RECURSIVE geopoint_from(_, _)
geopoint_from(hset, r) ==
    IF r > Len(GEOPOINT_ROOT_CANDIDATES) THEN None
    ELSE LET root == GEOPOINT_ROOT_CANDIDATES[r]
         IN  IF root \in hset
             THEN Some([kind |-> "combined", a |-> root, b |-> None])
             ELSE IF first_pair(hset, root, 1) # None
                  THEN first_pair(hset, root, 1)
                  ELSE geopoint_from(hset, r + 1)

\* find_geopoint_mode(headers); None stands for the RuntimeError it raises
find_geopoint_mode(hset) == geopoint_from(hset, 1)

RECURSIVE date_from(_, _)
date_from(row, k) ==
    IF k > Len(DATE_FIELD_CANDIDATES) THEN None
    ELSE IF DATE_FIELD_CANDIDATES[k] \in DOMAIN row
         THEN Some(DATE_FIELD_CANDIDATES[k])
         ELSE date_from(row, k + 1)

\* the date_field loop of main over rows[0]
find_date_field(row) == date_from(row, 1)

\* fault: a missing or bad longitude defaults to 0
parse_coords_lenient(row, mode) ==
    LET pa == Split(StrOf(RowGet(row, mode.a)))
        pb == IF mode.b = None THEN pa ELSE << "", "" >> \o Split(StrOf(RowGet(row, Val(mode.b))))
        k == IF mode.b = None THEN 2 ELSE 3
    IN  IF Len(pa) < 1 THEN None
        ELSE IF FloatOf(pa[1]) = None THEN None
        ELSE IF Len(pb) < k THEN Some(<< 0, Val(FloatOf(pa[1])) >>)
        ELSE IF FloatOf(pb[k]) = None THEN Some(<< 0, Val(FloatOf(pa[1])) >>)
        ELSE Some(<< Val(FloatOf(pb[k])), Val(FloatOf(pa[1])) >>)

parse_coords(row, mode) ==
    IF mode.kind = "combined"
    THEN LET v == RowGet(row, mode.a)
             parts == Split(StrOf(v))
         IN  IF v = None THEN None
             ELSE IF Len(parts) < 2 THEN None
             ELSE IF FloatOf(parts[1]) = None \/ FloatOf(parts[2]) = None THEN None
             ELSE Some(<< Val(FloatOf(parts[2])), Val(FloatOf(parts[1])) >>)
    ELSE LET va == RowGet(row, mode.a)
             vb == RowGet(row, Val(mode.b))
             lat == FloatOf(Strip(IF Falsy(va) THEN "" ELSE Val(va)))
             lon == FloatOf(Strip(IF Falsy(vb) THEN "" ELSE Val(vb)))
         IN  IF lat = None THEN None
             ELSE IF mode.b = None THEN None
             ELSE IF lon = None THEN None
             ELSE Some(<< Val(lon), Val(lat) >>)

\* ------------------------------------------------------- export locator
SettingsPath(id) == "/api/v2/assets/" \o ASSET \o "/export-settings/" \o id
SettingIds == {"es1", "es2", "es3", "es5"}

\* s.startswith("/")
StartsWithSlash(s) == \E id \in SettingIds : s \in {SettingsPath(id), SettingsPath(id) \o "/"}

\* s.rstrip("/")
RStripSlash(s) ==
    IF \E id \in SettingIds, b \in {"", BASE} : s = b \o SettingsPath(id) \o "/"
    THEN LET w == CHOOSE w \in SettingIds \X {"", BASE} : s = w[2] \o SettingsPath(w[1]) \o "/"
         IN  w[2] \o SettingsPath(w[1])
    ELSE s

\* build_data_csv_url(export_setting); None stands for the RuntimeError it raises
build_data_csv_url(export_setting) ==
    LET settings_url ==
            IF ~Falsy(export_setting.url) THEN export_setting.url
            ELSE IF ~Falsy(export_setting.uid)
                 THEN Some(SettingsPath(Val(export_setting.uid)) \o "/")
                 ELSE None
    IN  IF settings_url = None THEN None
        ELSE IF StartsWithSlash(Val(settings_url))
             THEN Some(RStripSlash(BASE \o Val(settings_url)) \o "/data.csv")
             ELSE Some(RStripSlash(Val(settings_url)) \o "/data.csv")

\* (it.get("name") or it.get("title") or "").strip()
ItemName(it) ==
    Strip(IF ~Falsy(it.name) THEN Val(it.name)
          ELSE IF ~Falsy(it.title) THEN Val(it.title)
          ELSE "")

\* the search loop of main: the first item of settings whose name matches
RECURSIVE find_export(_, _)
find_export(settings, k) ==
    IF k > Len(settings) THEN None
    ELSE IF ItemName(settings[k]) = EXPORT_NAME THEN Some(settings[k])
    ELSE find_export(settings, k + 1)

\* the url of the k-th page of the listing; the first is the one
\* fetch_all_export_settings starts from
PageUrl(k) ==
    BASE \o SettingsPath("") \o (IF k = 1 THEN "" ELSE "?page=" \o ToString(k))

\* ------------------------------------------------------------ remote data
E1 == [name |-> Some("portal_csv"), title |-> None,
       url |-> Some(SettingsPath("es1") \o "/"), uid |-> Some("es1")]
E2 == [name |-> None, title |-> Some("portal_csv"),
       url |-> Some(BASE \o SettingsPath("es2") \o "/"), uid |-> None]
E3 == [name |-> Some("otro"), title |-> Some("portal_csv"),
       url |-> Some(BASE \o SettingsPath("es3") \o "/"), uid |-> Some("es3")]
E4 == [name |-> Some(" portal_csv "), title |-> None, url |-> None, uid |-> None]
E5 == [name |-> Some("portal_csv"), title |-> Some("otro"), url |-> Some(""), uid |-> Some("es5")]
Descriptors == {E1, E2, E3, E4, E5}

\* the results of one listing page
PageResults == {<< >>} \cup {<< d >> : d \in Descriptors} \cup {<< E3, E5 >>}

\* A listing page is the JSON the endpoint answers with: an envelope (a dict
\* with "results" and "next"), a bare list, or anything else.  In a chain every
\* page but the last is an envelope whose next is the following page.
LastPages ==
    [kind : {"envelope", "list"}, results : PageResults, next : {None}]
        \cup {[kind |-> "other", results |-> << >>, next |-> None]}
InnerPage(k) == [kind : {"envelope"}, results : PageResults, next : {Some(PageUrl(k + 1))}]

RECURSIVE ChainsOf(_, _)
ChainsOf(k, n) ==
    IF k = n THEN {<< p >> : p \in LastPages}
    ELSE {<< p >> \o c : p \in InnerPage(k), c \in ChainsOf(k + 1, n)}
Chains == UNION {ChainsOf(1, n) : n \in 1..MaxPages}

\* Rows of data.csv as csv.DictReader yields them: one cell per header, None
\* for a cell a short line leaves out.  Each table has its own headers.
RowsCombinedDated ==
    [ubicacion : {Some("14.7 -91.2 0 0"), Some("14.7")},
     total_plantas : {Some("3"), Some("-5")},
     fecha_actividad : {Some(D_NAIVE), Some(D_Z2), Some(D_Z3)}]
RowsSplitDated ==
    [_submission_time : {Some("ayer"), Some(D_Z2)},
     total_participantes : {Some("2.5")},
     _geolocation_latitude : {Some("14.7"), Some("abc")},
     _geolocation_longitude : {Some("-91.2"), None}]
RowsCombinedUndated ==
    [total_plantas : {Some("abc"), Some("3.5")},
     total_participantes : {Some(" 4 "), Some("")},
     ubicacion : {Some("abc -91.2"), Some("14.7 -91.2 0 0")}]
RowsNoGeopoint ==
    [total_plantas : {Some("3")}, today : {Some(D_NAIVE)}, ubicacion_latitude : {Some("14.7")}]
Tables == {RowsCombinedDated, RowsSplitDated, RowsCombinedUndated, RowsNoGeopoint}

SeqsUpTo(S, n) == UNION {[1..k -> S] : k \in 0..n}
Csvs == UNION {SeqsUpTo(T, MaxRows) : T \in Tables}

DefaultChain == << [kind |-> "envelope", results |-> << E3, E5 >>, next |-> None] >>
DefaultCsv ==
    << [ubicacion |-> Some("14.7 -91.2 0 0"), total_plantas |-> Some("3"),
        fecha_actividad |-> Some(D_Z2)] >>

\* the page of the listing a url names
PageOf(u) == CHOOSE k \in 1..Len(pages) : PageUrl(k) = u

\* ------------------------------------------------------------------ Init
\* main() up to the first call of http_get_with_retries
StartMain ==
    /\ pc = "listing_get"
    /\ url = PageUrl(1) /\ tries = ListingTries
    /\ i = 0 /\ last_err = None /\ resp = None
    /\ nreq = 0 /\ nfail = 0 /\ last_out = None /\ waits = << >>
    /\ out = << >> /\ fetched = << >>
    /\ export = None /\ csv_url = None
    /\ geopoint_mode = None /\ date_field = None /\ idx = 0
    /\ features = << >> /\ total_boletas = 0 /\ total_plantas = 0 /\ total_part = 0
    /\ last_ts = None /\ geojson = None /\ resumen = None
    /\ written = {} /\ err = None

\* The remote does not change between runs.  Either the listing varies and
\* the service is unreliable, or the table varies and every GET succeeds:
\* main reads the table only after its last GET has returned.
Init ==
    /\ \/ pages \in Chains /\ csv = DefaultCsv /\ flaky = TRUE
       \/ pages = DefaultChain /\ csv \in Csvs /\ flaky = FALSE
    /\ run = 1
    /\ geojson_file = None /\ resumen_file = None
    /\ before = [geojson |-> None, resumen |-> None]
    /\ StartMain

\* --------------------------------------------------------------- actions
\* fault: the collection was opened for writing before the pipeline ran
Raise_truncating(e) ==
    /\ pc' = "failed"
    /\ err' = Some([at |-> pc, error |-> e])
    /\ geojson_file' = Some([type |-> "FeatureCollection", features |-> << >>])
    /\ UNCHANGED << resumen_file, written >>

\* An exception nothing catches leaves main: the run ends with a traceback.
\* No file has been opened for writing at any raise of the script.
Raise(e) ==
    /\ pc' = "failed"
    /\ err' = Some([at |-> pc, error |-> e])
    /\ UNCHANGED fileVars

\* a call http_get_with_retries(u, tries=t), returning to position ret
CallFetch(u, t, at) ==
    /\ pc' = at
    /\ url' = u /\ tries' = t
    /\ i' = 0 /\ last_err' = None /\ resp' = None
    /\ nreq' = 0 /\ nfail' = 0 /\ last_out' = None /\ waits' = << >>

\* the caller goes on with the response: the frame of the call, and with it
\* the history of the call, is gone
DropFrame ==
    /\ i' = 0 /\ last_err' = None
    /\ nreq' = 0 /\ nfail' = 0 /\ last_out' = None /\ waits' = << >>
    /\ UNCHANGED << url, tries, resp >>

GetPcs == {"listing_get", "data_get"}
ReturnTo(at) == IF at = "listing_get" THEN "listing_page" ELSE "data_resp"

\* fault: the loop runs once more
InRange_inclusive(k, n) == k <= n

\* for i in range(tries)
InRange(k, n) == k < n

\* what one requests.get can end in: a response, or a network-level exception
Outcomes ==
    IF flaky THEN {[status |-> st] : st \in Statuses} \cup {NetErr} ELSE {[status |-> 200]}
\* the exception the except clause binds to last_err
ErrOf(o) == IF o = NetErr THEN NetErr ELSE HTTPError(o.status)

IsTransient(o) == IF o = NetErr THEN TRUE ELSE o.status \in TransientStatus

\* One iteration of the retry loop whose GET yields a response the loop returns.
AttemptReturns ==
    /\ pc \in GetPcs /\ InRange(i, tries)
    /\ \E o \in Outcomes :
        /\ ~IsTransient(o)
        /\ resp' = Some(o)
        /\ last_out' = Some(o)
    /\ nreq' = nreq + 1
    /\ pc' = ReturnTo(pc)
    /\ UNCHANGED << url, tries, i, last_err, nfail, waits >>
    /\ UNCHANGED << remoteVars, run, listVars, locateVars, rowVars, docVars,
                    fileVars, before, err >>

\* One iteration of the retry loop that ends in the except clause: the GET
\* raised, or answered 502/503/504; last_err is set and the loop sleeps.
AttemptTransient ==
    /\ pc \in GetPcs /\ InRange(i, tries)
    /\ \E o \in Outcomes :
        /\ IsTransient(o)
        /\ last_err' = Some(ErrOf(o))
        /\ last_out' = Some(o)
    /\ nreq' = nreq + 1
    /\ nfail' = nfail + 1
    /\ waits' = Append(waits, Backoff(i))
    /\ i' = i + 1
    /\ UNCHANGED << pc, url, tries, resp >>
    /\ UNCHANGED << remoteVars, run, listVars, locateVars, rowVars, docVars,
                    fileVars, before, err >>

\* The loop is over without a return: raise RuntimeError(url, last_err).
DownloadFailure ==
    /\ pc \in GetPcs /\ ~InRange(i, tries)
    /\ Raise([exc |-> "RuntimeError", msg |-> "Fallo al descargar tras reintentos",
              url |-> url, cause |-> last_err])
    /\ UNCHANGED << remoteVars, run, fetchVars, listVars, locateVars, rowVars,
                    docVars, before >>

\* fault: the next link is not followed
NextUrl_ignored(data) == None

\* url = data.get("next") for an envelope, None otherwise
NextUrl(data) == IF data.kind = "envelope" THEN data.next ELSE None

\* what a page adds to out
PageItems(data) == IF data.kind \in {"envelope", "list"} THEN data.results ELSE << >>

\* fetch_all_export_settings after the fetcher returned: raise_for_status,
\* the page's items are added to out, and the loop goes on with next.
ListingPage ==
    /\ pc = "listing_page"
    /\ IF RaisesForStatus(Val(resp).status)
       THEN /\ Raise([exc |-> "HTTPError", msg |-> "Client or Server Error",
                   status |-> Val(resp).status, url |-> url])
            /\ UNCHANGED << fetchVars, listVars >>
       ELSE LET data == pages[PageOf(url)]
            IN  /\ out' = out \o PageItems(data)
                /\ fetched' = Append(fetched, PageOf(url))
                /\ IF NextUrl(data) # None
                   THEN CallFetch(Val(NextUrl(data)), ListingTries, "listing_get")
                   ELSE pc' = "locate" /\ DropFrame
                /\ UNCHANGED << fileVars, err >>
    /\ UNCHANGED << remoteVars, run, locateVars, rowVars, docVars, before >>

\* main from the return of fetch_all_export_settings to the call that
\* downloads data.csv
LocateExport ==
    /\ pc = "locate"
    /\ LET found == find_export(out, 1)
           target == IF found = None THEN None ELSE build_data_csv_url(Val(found))
       IN  /\ export' = found
           /\ IF found = None
              THEN /\ Raise([exc |-> "RuntimeError", msg |-> "No encontre export-setting",
                             name |-> EXPORT_NAME])
                   /\ UNCHANGED << fetchVars, csv_url >>
              ELSE IF target = None
              THEN /\ Raise([exc |-> "RuntimeError", msg |-> "El export-setting no trae url ni uid"])
                   /\ UNCHANGED << fetchVars, csv_url >>
              ELSE /\ csv_url' = target
                   /\ CallFetch(Val(target), DownloadTries, "data_get")
                   /\ UNCHANGED << fileVars, err >>
    /\ UNCHANGED << remoteVars, run, listVars, rowVars, docVars, before >>

kpis(b, p, t) == [total_boletas |-> b, total_plantas |-> p, total_participantes |-> t]

\* main from the return of the download to the row loop: raise_for_status,
\* decoding, the documents of an empty table, the geopoint mode and date field
Decode ==
    /\ pc = "data_resp"
    /\ IF RaisesForStatus(Val(resp).status)
       THEN /\ Raise([exc |-> "HTTPError", msg |-> "Client or Server Error",
                   status |-> Val(resp).status, url |-> url])
            /\ UNCHANGED << fetchVars, rowVars, docVars >>
       ELSE IF csv = << >>
       THEN /\ \E c \in Clock :
                /\ geojson' = Some([type |-> "FeatureCollection", features |-> << >>])
                /\ resumen' = Some([ultima_actualizacion |-> utc_now_iso(c),
                                    kpis |-> kpis(0, 0, 0)])
            /\ pc' = "write_geojson"
            /\ DropFrame
            /\ UNCHANGED << rowVars, fileVars, err >>
       ELSE IF find_geopoint_mode(DOMAIN csv[1]) = None
       THEN /\ Raise([exc |-> "RuntimeError", msg |-> "No encontre geopoint"])
            /\ DropFrame
            /\ UNCHANGED << rowVars, docVars >>
       ELSE /\ geopoint_mode' = find_geopoint_mode(DOMAIN csv[1])
            /\ date_field' = find_date_field(csv[1])
            /\ pc' = "rows"
            /\ DropFrame
            /\ UNCHANGED << idx, features, total_boletas, total_plantas, total_part,
                            last_ts, docVars, fileVars, err >>
    /\ UNCHANGED << remoteVars, run, listVars, locateVars, before >>

\* a or b on optional strings, as a string
OrElse(a, b) == IF ~Falsy(a) THEN Val(a) ELSE b

\* the properties of a feature the totals and the summary depend on, with
\* the id main gives a row that has no identity column
build_props(row, field, n) ==
    [id |-> "row-" \o ToString(n + 1),
     fecha_actividad |->
        OrElse(RowGet(row, "fecha_actividad"),
               IF field # None THEN OrElse(RowGet(row, Val(field)), "") ELSE ""),
     area_m2 |-> to_int(RowGet(row, "area_m2")),
     total_plantas |-> to_int(RowGet(row, "total_plantas")),
     total_participantes |-> to_int(RowGet(row, "total_participantes"))]

build_feature(coords, props) ==
    [type |-> "Feature",
     geometry |-> [type |-> "Point", coordinates |-> coords],
     properties |-> props]

\* the value of last_ts after `if ts and (last_ts is None or ts > last_ts)`
track_ts(ts, last) ==
    IF ts # None /\ (last = None \/ Later(Val(ts), Val(last))) THEN ts ELSE last

\* ts > last_ts is evaluated and raises TypeError
CompareRaises(ts, last) ==
    ts # None /\ last # None /\ ~Comparable(Val(ts), Val(last))

\* One iteration of the row loop of main.
ProcessRow ==
    /\ pc = "rows" /\ idx < Len(csv)
    /\ LET row == csv[idx + 1]
           coords == parse_coords(row, Val(geopoint_mode))
           props == build_props(row, date_field, Len(features))
           ts == IF date_field # None THEN iso_parse(RowGet(row, Val(date_field))) ELSE None
       IN  IF coords = None
           THEN /\ idx' = idx + 1
                /\ UNCHANGED << pc, features, total_boletas, total_plantas, total_part,
                                last_ts, fileVars, err >>
           ELSE /\ total_boletas' = total_boletas + 1
                /\ total_plantas' = total_plantas + props.total_plantas
                /\ total_part' = total_part + props.total_participantes
                /\ IF CompareRaises(ts, last_ts)
                   THEN /\ Raise([exc |-> "TypeError",
                                  msg |-> "can't compare offset-naive and offset-aware datetimes"])
                        /\ UNCHANGED << idx, features, last_ts >>
                   ELSE /\ last_ts' = track_ts(ts, last_ts)
                        /\ features' = Append(features, build_feature(Val(coords), props))
                        /\ idx' = idx + 1
                        /\ UNCHANGED << pc, fileVars, err >>
    /\ UNCHANGED << geopoint_mode, date_field >>
    /\ UNCHANGED << remoteVars, run, fetchVars, listVars, locateVars, docVars, before >>

\* fault: the summary is always stamped with the clock
ultima_of_now(ts, c) == utc_now_iso(c)

\* ultima: the tracked timestamp, or the current time when there is none
ultima_of(ts, c) == IF ts # None THEN isoformat(Val(ts)) ELSE utc_now_iso(c)

\* main after the row loop: geojson and resumen are built
Assemble ==
    /\ pc = "rows" /\ idx = Len(csv)
    /\ \E c \in Clock :
        /\ geojson' = Some([type |-> "FeatureCollection", features |-> features])
        /\ resumen' = Some([ultima_actualizacion |-> ultima_of(last_ts, c),
                            kpis |-> kpis(total_boletas, total_plantas, total_part)])
    /\ pc' = "write_geojson"
    /\ UNCHANGED << remoteVars, run, fetchVars, listVars, locateVars, rowVars,
                    fileVars, before, err >>

\* json.dump(geojson) into OUT_GEOJSON
WriteGeojson ==
    /\ pc = "write_geojson"
    /\ geojson_file' = geojson
    /\ written' = written \cup {OUT_GEOJSON}
    /\ pc' = "write_resumen"
    /\ UNCHANGED << remoteVars, run, fetchVars, listVars, locateVars, rowVars,
                    docVars, resumen_file, before, err >>

\* json.dump(resumen) into OUT_RESUMEN; main returns
WriteResumen ==
    /\ pc = "write_resumen"
    /\ resumen_file' = resumen
    /\ written' = written \cup {OUT_RESUMEN}
    /\ pc' = "done"
    /\ UNCHANGED << remoteVars, run, fetchVars, listVars, locateVars, rowVars,
                    docVars, geojson_file, before, err >>

\* The script is started again, over the same remote data and the files the
\* earlier runs left.
Rerun ==
    /\ pc \in {"done", "failed"}
    /\ run + 1 \in Runs
    /\ run' = run + 1
    /\ before' = [geojson |-> geojson_file, resumen |-> resumen_file]
    /\ CallFetch(PageUrl(1), ListingTries, "listing_get")
    /\ out' = << >> /\ fetched' = << >>
    /\ export' = None /\ csv_url' = None
    /\ geopoint_mode' = None /\ date_field' = None /\ idx' = 0
    /\ features' = << >> /\ total_boletas' = 0 /\ total_plantas' = 0 /\ total_part' = 0
    /\ last_ts' = None /\ geojson' = None /\ resumen' = None
    /\ written' = {} /\ err' = None
    /\ UNCHANGED << remoteVars, geojson_file, resumen_file >>

Next ==
    \/ AttemptReturns
    \/ AttemptTransient
    \/ DownloadFailure
    \/ ListingPage
    \/ LocateExport
    \/ Decode
    \/ ProcessRow
    \/ Assemble
    \/ WriteGeojson
    \/ WriteResumen
    \/ Rerun

Spec == Init /\ [][Next]_vars

\* ================================================================ claims
Returned == pc \in {"listing_page", "data_resp"}
DownloadFailed ==
    pc = "failed" /\ Val(err).error.msg = "Fallo al descargar tras reintentos"
\* the error statuses that are not transient
HardStatus(st) == st >= 400 /\ st < 600 /\ st \notin {502, 503, 504}

\* what holds of the response and the history of a call in every state
C1_Inv ==
    /\ resp # None => Val(resp).status \notin {502, 503, 504}
    /\ pc \in GetPcs => resp = None /\ nreq = nfail
    /\ Returned =>
        /\ resp # None /\ resp = last_out
        /\ nreq = nfail + 1 /\ Len(waits) = nfail
        /\ err = None
\* an attempt that does not end transiently returns what it received
C1_Step ==
    (pc \in GetPcs /\ nreq' = nreq + 1 /\ nfail' = nfail)
        => (pc' \notin GetPcs /\ pc' # "failed" /\ resp' = last_out' /\ waits' = waits)

\* C1: a fetch call whose first k attempts end transiently and whose next
\* attempt yields another response returns that response after exactly k
\* retries (k + 1 GETs, k sleeps) with no error; while every attempt so far
\* ended transiently nothing has been returned; a 502/503/504 response is
\* never what the call returns.
C1_ReturnsAfterTransients == [](C1_Inv) /\ [][C1_Step]_vars

\* C1 witness: 503, 503, 200 on the data download
C1_Witness ==
    /\ pc = "data_resp" /\ Val(resp).status = 200
    /\ nfail = 2 /\ nreq = 3 /\ waits = << 3, 6 >>
    /\ last_err = Some(HTTPError(503))

\* the bound on the GETs of a call, and what the terminal error carries
C3_Inv ==
    /\ nreq <= tries
    /\ tries = IF pc = "listing_get" \/ pc = "listing_page" THEN 5
               ELSE IF pc = "data_get" \/ pc = "data_resp" THEN 7 ELSE tries
    /\ DownloadFailed =>
        /\ nreq = tries /\ nfail = tries
        /\ Val(err).error.url = url
        /\ Val(err).error.cause = Some(ErrOf(Val(last_out)))
\* after tries transient attempts the next step raises, with no further GET
C3_Step ==
    (pc \in GetPcs /\ nfail = tries)
        => (pc' = "failed" /\ nreq' = nreq /\ DownloadFailed')

\* C3: when all of the tries attempts of a call ended transiently the call
\* has issued exactly tries GETs and raises the terminal error, which carries
\* the url and the last underlying error; the error is raised at no other
\* moment, and a call never issues more than tries GETs (5 for a listing
\* page, 7 for the download).
C3_ExhaustionRaises == [](C3_Inv) /\ [][C3_Step]_vars

\* C3 witness: the download failed after seven transient attempts
C3_Witness ==
    /\ DownloadFailed /\ Val(err).at = "data_get"
    /\ nreq = 7 /\ Val(err).error.cause = Some(NetErr)

\* the step that receives a hard status, and the step of the call site
C4_Step ==
    /\ (pc \in GetPcs /\ nreq' = nreq + 1 /\ Val(last_out') # NetErr
            /\ HardStatus(Val(last_out').status))
        => (resp' = last_out' /\ Returned' /\ waits' = waits /\ i' = i)
    /\ (Returned /\ HardStatus(Val(resp).status))
        => /\ pc' = "failed" /\ nreq' = nreq
           /\ Val(err').error.exc = "HTTPError"
           /\ Val(err').error.status = Val(resp).status

\* C4: a response with a non-transient error status is returned by the
\* attempt that received it, with no sleep and no further attempt, and the
\* call site then ends the run with an HTTP error without another GET.
C4_HardStatusNotRetried == [][C4_Step]_vars

\* C4 witness: a 401 on the first request of the listing ended the run
C4_Witness ==
    /\ pc = "failed" /\ Val(err).at = "listing_page"
    /\ Val(err).error.exc = "HTTPError" /\ Val(err).error.status = 401
    /\ nreq = 1 /\ waits = << >>

\* C10: the k-th sleep of a call (k from 0) lasts min(30, 3 * 2^k), that is
\* 3, 6, 12, 24, 30, 30, ...: non-decreasing, between 3 and 30; one sleep
\* follows each failed attempt, and a call that returns on its first attempt
\* has not slept.
C10_BackoffSchedule ==
    /\ Len(waits) = nfail
    /\ \A k \in DOMAIN waits :
        /\ waits[k] = << 3, 6, 12, 24, 30, 30, 30, 30 >>[k]
        /\ waits[k] >= 3 /\ waits[k] <= 30
        /\ k > 1 => waits[k - 1] <= waits[k]
    /\ (Returned /\ nreq = 1) => waits = << >>

\* C10 witness: six failed attempts of the download, the cap reached twice
C10_Witness == pc = "data_get" /\ waits = << 3, 6, 12, 24, 30, 30 >>

\* ------------------------------------------------------- listing claims
Matches(d) ==
    LET n == IF d.name # None /\ d.name # Some("") THEN Val(d.name)
             ELSE IF d.title # None /\ d.title # Some("") THEN Val(d.title) ELSE ""
    IN  n \in {"portal_csv", " portal_csv "}

RECURSIVE ItemsUpTo(_)
ItemsUpTo(k) ==
    IF k = 0 THEN << >>
    ELSE ItemsUpTo(k - 1) \o (IF pages[k].kind = "other" THEN << >> ELSE pages[k].results)
AllItems == ItemsUpTo(Len(pages))

InListing ==
    \/ pc \in {"listing_get", "listing_page"}
    \/ pc = "failed" /\ Val(err).at \in {"listing_get", "listing_page"}

\* C5: the pages of the chain are fetched once each and in chain order, the
\* next request being for the page that follows the last one fetched; once
\* the listing is over every page has been fetched and out is the
\* concatenation of their results; the search for the export happens only
\* then, and finds a descriptor whenever any page holds a matching one.
C5_PaginationComplete ==
    /\ Len(fetched) <= Len(pages)
    /\ \A k \in DOMAIN fetched : fetched[k] = k
    /\ out = ItemsUpTo(Len(fetched))
    /\ pc \in {"listing_get", "listing_page"} => url = PageUrl(Len(fetched) + 1)
    /\ ~InListing => Len(fetched) = Len(pages) /\ out = AllItems
    /\ export # None => ~InListing
    /\ (~InListing /\ pc # "locate") =>
        /\ export = None <=> ~(\E k \in DOMAIN AllItems : Matches(AllItems[k]))
        /\ export # None => Matches(Val(export))

\* C5 witness: only the second page holds the export, and it was found
C5_Witness ==
    /\ Len(pages) = 2 /\ fetched = << 1, 2 >>
    /\ ~(\E k \in DOMAIN pages[1].results : Matches(pages[1].results[k]))
    /\ pages[1].results # << >>
    /\ export # None /\ pc = "data_get"

\* ----------------------------------------------------------- row claims
RECURSIVE SumOver(_, _)
SumOver(fs, field) ==
    IF fs = << >> THEN 0
    ELSE fs[1].properties[field] + SumOver(Tail(fs), field)

AfterSniff == pc \in {"rows", "write_geojson", "write_resumen", "done"}

\* C6: after every processed row and in the final summary, total_boletas is
\* the number of features, total_plantas and total_participantes are the sums
\* of the features' properties of those names, and the three are >= 0.
C6_TotalsInvariant ==
    /\ AfterSniff =>
        /\ total_boletas = Len(features)
        /\ total_plantas = SumOver(features, "total_plantas")
        /\ total_part = SumOver(features, "total_participantes")
        /\ total_boletas >= 0 /\ total_plantas >= 0 /\ total_part >= 0
    /\ pc = "done" =>
        /\ Val(resumen_file).kpis.total_boletas = Len(Val(geojson_file).features)
        /\ Val(resumen_file).kpis.total_plantas >= 0
        /\ Val(resumen_file).kpis.total_participantes >= 0

\* whether a cell reads as a number
Numeric(c) == IF c = None THEN FALSE ELSE FloatOf(Strip(Val(c))) # None

\* whether the coordinates of a row resolve under the mode of the run
Resolves(row) ==
    IF Val(geopoint_mode).kind = "combined"
    THEN LET c == RowGet(row, Val(geopoint_mode).a)
         IN  IF c = None THEN FALSE
             ELSE IF Len(Split(Val(c))) < 2 THEN FALSE
             ELSE FloatOf(Split(Val(c))[1]) # None /\ FloatOf(Split(Val(c))[2]) # None
    ELSE /\ Numeric(RowGet(row, Val(geopoint_mode).a))
         /\ Numeric(RowGet(row, Val(Val(geopoint_mode).b)))

\* the rows among the first n whose coordinates resolve, in row order
ResolvedRows(n) == SelectSeq([k \in 1..n |-> k], LAMBDA k : Resolves(csv[k]))

\* [longitude, latitude] of a row whose coordinates resolve
LonLat(row) ==
    IF Val(geopoint_mode).kind = "combined"
    THEN LET t == Split(Val(RowGet(row, Val(geopoint_mode).a)))
         IN  << Val(FloatOf(t[2])), Val(FloatOf(t[1])) >>
    ELSE << Val(FloatOf(Strip(Val(RowGet(row, Val(Val(geopoint_mode).b)))))),
            Val(FloatOf(Strip(Val(RowGet(row, Val(geopoint_mode).a))))) >>

\* the text of the date cell of a row, "" when it has none
DateText(row) ==
    IF date_field = None THEN ""
    ELSE IF RowGet(row, Val(date_field)) = None THEN ""
    ELSE Val(RowGet(row, Val(date_field)))

\* the features are those of the resolved rows, in row order
C7_Inv ==
    /\ (AfterSniff /\ csv = << >>) => features = << >>
    /\ (AfterSniff /\ csv # << >>) =>
        LET r == ResolvedRows(idx)
        IN  /\ Len(features) = Len(r)
            /\ \A j \in DOMAIN features :
                /\ features[j].geometry.coordinates = LonLat(csv[r[j]])
                /\ features[j].properties.id = "row-" \o ToString(j)
                /\ features[j].properties.fecha_actividad = DateText(csv[r[j]])
                /\ features[j].properties.total_plantas
                        = to_int(RowGet(csv[r[j]], "total_plantas"))
    /\ pc \in {"write_geojson", "write_resumen", "done"} => idx = Len(csv)
    /\ pc = "done" => Val(geojson_file).features = features
\* a row that does not resolve changes neither the list nor the totals
C7_Step ==
    (pc = "rows" /\ pc' = "rows" /\ idx' = idx + 1 /\ ~Resolves(csv[idx + 1]))
        => UNCHANGED << features, total_boletas, total_plantas, total_part >>

\* C7: the feature list holds one feature for each row consumed so far whose
\* coordinates resolve and none for the others, in row order, and the written
\* collection is that list over all rows; the step over a row whose
\* coordinates do not resolve changes neither the list nor the three totals.
C7_FeaturesAreResolvedRows == [](C7_Inv) /\ [][C7_Step]_vars

\* C7 witness: of two rows only the second resolves, and one feature is written
C7_Witness ==
    /\ pc = "done" /\ Len(csv) = 2
    /\ ~Resolves(csv[1]) /\ Resolves(csv[2])
    /\ Len(Val(geojson_file).features) = 1
    /\ Val(resumen_file).kpis.total_boletas = 1

\* the sums of C6 without the signs
TotalsMatchFeatures ==
    AfterSniff =>
        /\ total_boletas = Len(features)
        /\ total_plantas = SumOver(features, "total_plantas")
        /\ total_part = SumOver(features, "total_participantes")

\* the tracked timestamp is the latest date of the resolved rows so far
LastTsIsMaximum ==
    (AfterSniff /\ csv # << >> /\ date_field # None) =>
        LET seen == {iso_parse(RowGet(csv[k], Val(date_field))) :
                        k \in {j \in 1..idx : Resolves(csv[j])}} \ {None}
        IN  IF seen = {} THEN last_ts = None
            ELSE /\ last_ts \in seen
                 /\ \A t \in seen : ~Later(Val(t), Val(last_ts))

\* C9: once the geopoint mode is resolved no row ends the run: the loop runs
\* to the end and both files are written, whatever the cells hold.
C9_RowsNeverAbort == geopoint_mode # None => pc # "failed"

\* --------------------------------------------------------- file claims
\* C2: a run that ended in an error has written nothing, and both files are
\* as they were when it started; a run that returned has written both; until
\* the first write of a run both files are as they were when it started.
C2_FailureWritesNothing ==
    /\ pc = "failed" =>
        /\ written = {}
        /\ geojson_file = before.geojson /\ resumen_file = before.resumen
    /\ pc = "done" =>
        /\ written = {"data/puntos.geojson", "data/resumen.json"}
        /\ geojson_file = geojson /\ resumen_file = resumen
        /\ geojson_file # None /\ resumen_file # None
    /\ written = {} => geojson_file = before.geojson /\ resumen_file = before.resumen
    /\ (written # {} /\ pc # "done") =>
        pc = "write_resumen" /\ written = {"data/puntos.geojson"}

\* C2 witness: the second run failed on the download after the first wrote
\* both files
C2_Witness ==
    /\ run = 2 /\ DownloadFailed /\ Val(err).at = "data_get"
    /\ before.geojson # None /\ geojson_file = before.geojson
    /\ resumen_file = before.resumen

SecondRunDone ==
    run >= 2 /\ pc = "done" /\ before.geojson # None /\ before.resumen # None
DateColumnPresent ==
    IF csv = << >> THEN FALSE
    ELSE \E k \in DOMAIN DATE_FIELD_CANDIDATES : DATE_FIELD_CANDIDATES[k] \in DOMAIN csv[1]
\* some row whose coordinates resolve holds a date that parses
SomeDateTracked ==
    IF ~DateColumnPresent THEN FALSE
    ELSE \E k \in DOMAIN csv :
            Resolves(csv[k]) /\ iso_parse(RowGet(csv[k], Val(date_field))) # None

\* C8 as stated: a second run over the same remote data writes the same
\* features and totals, and with a date column in the data also the same
\* ultima_actualizacion.
C8_SameOutputsWithDateColumn ==
    SecondRunDone =>
        /\ geojson_file = before.geojson
        /\ Val(resumen_file).kpis = Val(before.resumen).kpis
        /\ DateColumnPresent =>
            Val(resumen_file).ultima_actualizacion
                = Val(before.resumen).ultima_actualizacion

\* C8 amended: a second run over the same remote data writes the same
\* features and totals, and when some row with resolvable coordinates holds a
\* date that parses also the same ultima_actualizacion, which is then no
\* reading of the clock.
C8_SameOutputsWithTrackedDate ==
    SecondRunDone =>
        /\ geojson_file = before.geojson
        /\ Val(resumen_file).kpis = Val(before.resumen).kpis
        /\ SomeDateTracked =>
            /\ Val(resumen_file).ultima_actualizacion
                = Val(before.resumen).ultima_actualizacion
            /\ Val(resumen_file).ultima_actualizacion.suffix # "Z"

\* C8 witness: two runs over a table with a tracked date wrote the same summary
C8_Witness ==
    /\ SecondRunDone /\ SomeDateTracked /\ Len(csv) = 2
    /\ resumen_file = before.resumen
    /\ Val(resumen_file).ultima_actualizacion = [text |-> 56, suffix |-> "+00:00"]

====
